---- MODULE Spec2Model ----
(***************************************************************************)
(* Risala letter editor: the undo/redo history hook (useLetterHistory) and *)
(* the contentEditable synchronisation hook (useContentEditableSync).      *)
(*                                                                         *)
(* JavaScript arrays are 0-based and TLA+ sequences 1-based: the element   *)
(* the code calls history[k] is At(history, k) == history[k + 1] here.     *)
(* historyIndex keeps the code's 0-based value, -1 for "no current entry". *)
(***************************************************************************)
EXTENDS Integers, Sequences, FiniteSets, TLC

(* ------------------------------ bounds --------------------------------- *)

\* Number of distinct letter snapshots the caller may push.
NumSnapshots == 2

\* Longest run of pushes followed from an empty buffer (must exceed
\* maxHistorySize so that eviction happens).
MaxPushes == 7

\* Longest text of the editable surface and of the content prop.
MaxLen == 2

\* Model time advances in steps of one TicksPerWindow-th of the settle window.
TicksPerWindow == 2

\* In the page model: generation requests in flight at once, and history
\* entries plus requests in flight when a request is started.
MaxFlights == 1
MaxPageHistory == 2

(* ------------------------- program constants --------------------------- *)

\* setTimeout(() => { syncStateRef.current = "idle"; }, 1000)
SettleMs == 1000

\* const { maxHistorySize = 5 } = options;
maxHistorySize == 5

\* The "no-op" sentinel undo()/redo() return: null.
Null == 0

Snapshots == 1..NumSnapshots

Min(a, b) == IF a < b THEN a ELSE b
Max(a, b) == IF a > b THEN a ELSE b

(* ----------------------------- variables ------------------------------- *)

VARIABLES
    history,        \* useState<LetterState[]>([])
    historyIndex,   \* useState(-1)
    histOp,         \* the hook operation called last ("init" before any)
    histArg,        \* the snapshot that call was given (Null if none)
    histRet,        \* what that call returned (Null for void and for no-op)
    histPrev,       \* history, historyIndex, histOp and histRet before that call
    pushRun,        \* snapshots pushed since the buffer was last empty
    pureRun         \* TRUE while nothing but pushes happened since then

histVars == <<history, historyIndex, histOp, histArg, histRet, histPrev, pushRun, pureRun>>

VARIABLES
    content,               \* the hook's content prop (the page's letterContent)
    surface,               \* contentEditableRef.current.innerText
    caret,                 \* caret offset in the surface, -1: selection not in it
    syncStateRef,          \* useRef<SyncState>("idle")
    lastSyncedContentRef,  \* useRef(content)
    updateTimeoutRef,      \* the pending setTimeout(..., 0) of the update effect
    isInitializedRef,      \* useRef(false)
    settleTimers,          \* remaining ms of each pending setTimeout(..., 1000)
    sinceInput,            \* ms since the last handleContentChange/handlePaste call
    deferred,              \* the content prop changed while "editing", no user event since
    syncOp,                \* the step taken last
    effects,               \* what that step did, in order: assignments to
                           \* syncStateRef, change callbacks, cleared timeouts,
                           \* caught DOM exceptions
    touched,               \* a user event came since the pending timeout was set
    lastEdit               \* which of handleContentChange/handlePaste ran last

syncVars == <<content, surface, caret, syncStateRef, lastSyncedContentRef,
              updateTimeoutRef, isInitializedRef, settleTimers, sinceInput,
              deferred, syncOp, effects, touched, lastEdit>>

VARIABLES
    flights,   \* generateLetter calls awaiting their response: for each, the
               \* historyIndex and letterClosing of the render that created
               \* the callback, and what happened to the history since the
               \* call (cursorMoved: an undo, redo or reset; otherPushed:
               \* the push of another call)
    fedBack,   \* handleUndo/handleRedo set the letter content last, and no
               \* user event or generation result came since
    letterClosing  \* the closing line of the letter

pageVars == <<flights, fedBack, letterClosing>>

\* withDeduplication (request-cache.ts)
VARIABLES
    pendingRequests,  \* Map key -> promise stored (0: no entry)
    promises,         \* the promises made so far, by number: key, state of
                      \* requestFn's promise, whether the finally callback ran
    callers,          \* the calls made so far: key, promise received, whether
                      \* the caller's requestFn was invoked
    dedupOp           \* the step taken last

dedupVars == <<pendingRequests, promises, callers, dedupOp>>

\* handleSendMessage (page.tsx)
VARIABLES
    debounceTimerRef,  \* useRef(null): the handle kept (0: null); a timer's
                       \* handle is the number of the call that set it
    sendTimers,        \* the live setTimeout(..., 500) timers: call, message
                       \* and file ids, remaining ms
    sendCount,         \* handleSendMessage calls so far
    sinceSend,         \* ms since the last call (capped at DebounceMs)
    requestLog,        \* the generateLetter calls made by the timers, in order
    sendOp             \* the step taken last

debounceVars == <<debounceTimerRef, sendTimers, sendCount, sinceSend, requestLog, sendOp>>

\* POST /api/pdf
VARIABLES
    pdfRequests,  \* the requests: where each is in the handler, its browser
                  \* ("none", "open", "closed"), its response, whether a
                  \* step of it has thrown
    pdfOp         \* the step taken last

pdfVars == <<pdfRequests, pdfOp>>

\* POST /api/letter/generate: the response cache (request-cache.ts)
VARIABLES
    cacheStore,  \* Map key -> entry, as the set of its entries: key, data
                 \* (the number of the promise whose result it is), expiresAt
    cacheNow,    \* Date.now(), in ticks
    served,      \* the cacheable requests handled so far: key, how each was
                 \* answered ("hit", "joined", "executed"), when, the promise
                 \* it awaits and the expiry of the entry it was given
    settledAt,   \* for each promise, when its execution ended (-1: not yet)
    cacheOp      \* the step taken last

cacheVars == <<cacheStore, cacheNow, served, settledAt, cacheOp>>

\* checkRateLimit (the rate limiter)
VARIABLES
    rateLimitStore,  \* Map clientId -> entry, as the set of its entries:
                     \* clientId, count, resetTime
    rateNow,         \* Date.now(), in ticks
    lastCheck,       \* the last call: clientId, what it returned, whether
                     \* the clean-up ran, the client's entry before it, and
                     \* whether it let a denied client in again
    fixedWindow,     \* for each client id, the fixed window its own calls
                     \* define: resetTime (-1: none yet), calls allowed in
                     \* it, whether one was denied in it
    rateOp           \* the step taken last

rateVars == <<rateLimitStore, rateNow, lastCheck, fixedWindow, rateOp>>

\* ChatInput (page.tsx)
VARIABLES
    uploadedFiles,  \* the attached files in order: size, and whether the
                    \* upload has given the file its fileId
    filesOp         \* the step taken last

filesVars == <<uploadedFiles, filesOp>>

\* Everything outside the letter page and its two hooks.
restVars == <<dedupVars, debounceVars, pdfVars, cacheVars, rateVars, filesVars>>

clientVars == <<histVars, syncVars, pageVars>>

vars == <<clientVars, restVars>>

(* ------------------------- withDeduplication --------------------------- *)

\* Cache keys, and the number of withDeduplication calls followed.
NumKeys == 2
MaxCalls == 4

Keys == 1..NumKeys

NoEntry == 0

DedupInit ==
    /\ pendingRequests = [key \in Keys |-> NoEntry]
    /\ promises = <<>>
    /\ callers = <<>>
    /\ dedupOp = "init"

(* ------------------------- handleSendMessage --------------------------- *)

\* Messages (each with its file ids) the chat input can send, calls
\* followed, and steps of model time per debounce delay.
NumMessages == 2
MaxSends == 4
DebounceTicks == 2

\* setTimeout(() => {...}, 500)
DebounceMs == 500

DebounceTickMs == DebounceMs \div DebounceTicks
DebounceDelay == DebounceTicks * DebounceTickMs

Messages == 1..NumMessages

DebounceInit ==
    /\ debounceTimerRef = 0
    /\ sendTimers = {}
    /\ sendCount = 0
    /\ sinceSend = DebounceDelay
    /\ requestLog = <<>>
    /\ sendOp = "init"

(* ----------------------------- POST /api/pdf --------------------------- *)

\* Requests handled concurrently.
NumPdfRequests == 2

PdfIds == 1..NumPdfRequests

\* The awaited steps of the try block after the launch, in order.
PdfSteps == <<"newPage", "setContent", "fonts", "pdf", "close", "respond">>

PdfInit ==
    /\ pdfRequests = [r \in PdfIds |->
                         [pc |-> "json", browser |-> "none", response |-> "none",
                          failed |-> FALSE]]
    /\ pdfOp = "init"

(* ----------------------- POST /api/letter/generate --------------------- *)

\* CACHE_CONFIG.letterGeneration.ttlMs in ticks, the last tick followed, and
\* the cache keys of the requests followed.
TtlTicks == 2
MaxNow == 5
NumCacheKeys == 1

CacheKeys == 1..NumCacheKeys

CacheInit ==
    /\ cacheStore = {}
    /\ cacheNow = 0
    /\ served = <<>>
    /\ settledAt = <<>>
    /\ cacheOp = "init"

(* ----------------------------- checkRateLimit -------------------------- *)

\* The config (maxRequests, and windowMs in ticks), the client ids, and the
\* last tick followed.
MaxRequests == 2
WindowTicks == 2
NumClients == 2
MaxRateNow == 4

ClientIds == 1..NumClients

NoResult == [allowed |-> FALSE, remaining |-> 0, resetTime |-> 0]

RateInit ==
    /\ rateLimitStore = {}
    /\ rateNow = 0
    /\ lastCheck = [clientId |-> 0, returned |-> "none", result |-> NoResult,
                    cleanup |-> FALSE, before |-> {}, unblocked |-> FALSE]
    /\ fixedWindow = [c \in ClientIds |->
                         [resetTime |-> -1, allowed |-> 0, denied |-> FALSE]]
    /\ rateOp = "init"

(* -------------------------------- ChatInput ---------------------------- *)

\* Sizes are counted in units of 25 MB: the total limit of 100 MB, the limit
\* of 25 MB for an audio file and of 50 MB for any other file.
MAX_FILES == 5
MAX_TOTAL_SIZE == 4
MaxAudioSize == 1
MaxOtherSize == 2

\* The largest file offered, and the most files selected at once.
MaxFileSize == 3
MaxBatch == 3

\* The files a selection can hold.
Files == [size : 1..MaxFileSize, audio : BOOLEAN]
Batches == UNION {[1..n -> Files] : n \in 1..MaxBatch}

FilesInit ==
    /\ uploadedFiles = <<>>
    /\ filesOp = "init"

\* The state of everything outside the letter page before any request.
RestInit ==
    DedupInit /\ DebounceInit /\ PdfInit /\ CacheInit /\ RateInit /\ FilesInit

(* ------------------------ useLetterHistory ----------------------------- *)

\* A snapshot is a number made of its content field and its closing field.
SnapBase == NumSnapshots + 1
Snapshot(contentId, closing) == closing * SnapBase + contentId
ContentId(s) == s % SnapBase
ClosingOf(s) == s \div SnapBase

\* The empty closing line, which the page starts with.
NoClosing == 0

\* JS history[k]
At(h, k) == h[k + 1]

\* JS arr.slice(0, end) for end >= 0: the first end elements, all if fewer.
SliceToNoCut(s, end) == s
SliceTo(s, end) == SubSeq(s, 1, Min(end, Len(s)))

\* JS arr.slice(-n): the last n elements, all if fewer; slice(-0) is slice(0).
SliceLastKeepsFirst(s, n) == SubSeq(s, 1, Min(n, Len(s)))
SliceLast(s, n) ==
    IF n = 0 \/ Len(s) <= n THEN s ELSE SubSeq(s, Len(s) - n + 1, Len(s))

\* addState as created by a render whose historyIndex was closureIndex, run
\* on the state updater's argument prev: the new history and historyIndex.
addState(prev, closureIndex, state) ==
    LET newHistory == Append(SliceTo(prev, closureIndex + 1), state)
        trimmedHistory == SliceLast(newHistory, maxHistorySize)
    IN  [history |-> trimmedHistory, historyIndex |-> Len(trimmedHistory) - 1]

\* undo() of a render with history h and historyIndex i: the index it sets
\* and the value it returns.
undoNoGuard(h, i) ==
    [historyIndex |-> i - 1, ret |-> IF i > 0 THEN At(h, i - 1) ELSE Null]
undoKeepsIndex(h, i) ==
    IF i > 0 THEN [historyIndex |-> i, ret |-> At(h, i - 1)]
             ELSE [historyIndex |-> i, ret |-> Null]
undo(h, i) ==
    IF i > 0
    THEN LET prevIndex == i - 1
         IN  [historyIndex |-> prevIndex, ret |-> At(h, prevIndex)]
    ELSE [historyIndex |-> i, ret |-> Null]

\* redo() of a render with history h and historyIndex i.
redoOffByOne(h, i) ==
    IF i >= 0 /\ i <= Len(h) - 1
    THEN LET nextIndex == Min(i + 1, Len(h) - 1)
         IN  [historyIndex |-> nextIndex, ret |-> At(h, nextIndex)]
    ELSE [historyIndex |-> i, ret |-> Null]
redo(h, i) ==
    IF i < Len(h) - 1
    THEN LET nextIndex == i + 1
         IN  [historyIndex |-> nextIndex, ret |-> At(h, nextIndex)]
    ELSE [historyIndex |-> i, ret |-> Null]

canUndo == historyIndex > 0
canRedo == historyIndex < Len(history) - 1

HistInit ==
    /\ history = <<>>
    /\ historyIndex = -1
    /\ histOp = "init"
    /\ histArg = Null
    /\ histRet = Null
    /\ histPrev = [history |-> <<>>, historyIndex |-> -1, op |-> "init", ret |-> Null]
    /\ pushRun = <<>>
    /\ pureRun = TRUE
    /\ RestInit

Remember ==
    histPrev' = [history |-> history, historyIndex |-> historyIndex,
                 op |-> histOp, ret |-> histRet]

\* addState(state) called through the callback of the latest render.
AddState(state) ==
    /\ pureRun => Len(pushRun) < MaxPushes
    /\ LET r == addState(history, historyIndex, state)
       IN  /\ history' = r.history
           /\ historyIndex' = r.historyIndex
    /\ histOp' = "addState"
    /\ histArg' = state
    /\ histRet' = Null
    /\ Remember
    /\ pushRun' = IF pureRun THEN Append(pushRun, state) ELSE pushRun
    /\ UNCHANGED pureRun
    /\ UNCHANGED <<syncVars, pageVars>>
    /\ UNCHANGED restVars

Undo ==
    /\ LET r == undo(history, historyIndex)
       IN  /\ historyIndex' = r.historyIndex
           /\ histRet' = r.ret
           /\ pureRun' = (pureRun /\ r.ret = Null)
           /\ pushRun' = IF r.ret = Null THEN pushRun ELSE <<>>
    /\ histOp' = "undo"
    /\ histArg' = Null
    /\ Remember
    /\ UNCHANGED history
    /\ UNCHANGED <<syncVars, pageVars>>
    /\ UNCHANGED restVars

Redo ==
    /\ LET r == redo(history, historyIndex)
       IN  /\ historyIndex' = r.historyIndex
           /\ histRet' = r.ret
           /\ pureRun' = (pureRun /\ r.ret = Null)
           /\ pushRun' = IF r.ret = Null THEN pushRun ELSE <<>>
    /\ histOp' = "redo"
    /\ histArg' = Null
    /\ Remember
    /\ UNCHANGED history
    /\ UNCHANGED <<syncVars, pageVars>>
    /\ UNCHANGED restVars

reset ==
    /\ history' = <<>>
    /\ historyIndex' = -1
    /\ histOp' = "reset"
    /\ histArg' = Null
    /\ histRet' = Null
    /\ Remember
    /\ pushRun' = <<>>
    /\ pureRun' = TRUE
    /\ UNCHANGED <<syncVars, pageVars>>
    /\ UNCHANGED restVars

HistoryNext ==
    \/ \E state \in Snapshots : AddState(state)
    \/ Undo
    \/ Redo
    \/ reset


(* ---------------------- useContentEditableSync ------------------------- *)

\* The hook is modelled with enabled = true from its first commit and with
\* the ref attached (the element is always rendered).  The DOM follows the
\* HTML standard: the innerText setter replaces the children by one Text
\* node per line and one <br> per line break; Range stringification
\* returns the data of Text nodes only.  A React state setter called with
\* the current value causes no re-render, so the effects with dependency
\* [content, enabled] run exactly when the content prop changes.  Timer
\* callbacks run when due, before model time advances; several due
\* callbacks and user events may interleave in any order.

\* A text is a sequence of characters; NL is a line break.
NL == "nl"
Chars == {"a", NL}
Texts == UNION {[1..n -> Chars] : n \in 0..MaxLen}

\* Clipboard texts (plain text without line breaks).
PasteTexts == {t \in Texts : Len(t) > 0 /\ \A i \in 1..Len(t) : t[i] # NL}

TickMs == SettleMs \div TicksPerWindow
SettleWindow == TicksPerWindow * TickMs

\* No live timeout; a live one holds what its callback closed over: the
\* content prop and currentContent, the surface text read by the effect.
NoTimeout == [pending |-> FALSE, content |-> <<>>, currentContent |-> <<>>]

\* Entries of the effects log.
ModeWrite(m) == [kind |-> "mode", mode |-> m, text |-> <<>>]
ChangeCall(t) == [kind |-> "change", mode |-> "", text |-> t]
Cancelled == [kind |-> "cancel", mode |-> "", text |-> <<>>]
Caught(what) == [kind |-> what, mode |-> "", text |-> <<>>]

Kinds(log, k) == SelectSeq(log, LAMBDA e : e.kind = k)

InsertAt(t, pos, ins) == SubSeq(t, 1, pos) \o ins \o SubSeq(t, pos + 1, Len(t))
RemoveAt(t, pos) == SubSeq(t, 1, pos - 1) \o SubSeq(t, pos + 1, Len(t))

\* preCaretRange.toString().length: Range stringification concatenates the
\* data of the Text nodes before the caret; line breaks of the surface are
\* elements (<br>, block boundaries) and contribute nothing.
RECURSIVE CountText(_, _)
CountText(t, n) ==
    IF n = 0 THEN 0
    ELSE CountText(t, n - 1) + (IF t[n] = NL THEN 0 ELSE 1)

CursorOffset(t, c) == IF c >= 0 THEN CountText(t, c) ELSE 0

\* firstChild.textContent.length after innerText = t: the setter makes one
\* Text node per line and one <br> per line break, so the first child is
\* the first line, or a <br> (textContent "") when t starts with a break.
RECURSIVE FirstLineLen(_)
FirstLineLen(t) ==
    IF t = <<>> \/ Head(t) = NL THEN 0 ELSE 1 + FirstLineLen(Tail(t))

MaxOffset(t) == FirstLineLen(t)

\* The caret after the tick has written t: restored into firstChild at
\* Math.min(cursorOffset, maxOffset); with no firstChild (t empty) nothing is
\* restored and a caret that was in the surface collapses to its start.
RestoredCaret(t, cursorOffset, c) ==
    IF t = <<>>
    THEN IF c >= 0 THEN 0 ELSE -1
    ELSE Min(cursorOffset, MaxOffset(t))

\* The guard of the update effect and of its deferred callback.
MayTouchAlways(state) == TRUE
MayTouch(state) == state # "editing"

\* Whether the update effect schedules the deferred write of newContent.
ShouldScheduleAlways(newContent) ==
    /\ MayTouch(syncStateRef)
    /\ isInitializedRef

ShouldSchedule(newContent) ==
    /\ MayTouch(syncStateRef)
    /\ isInitializedRef
    /\ newContent # lastSyncedContentRef
    /\ newContent # surface

\* The guard of the initialisation effect: it writes only on its first run.
InitEffectRunsAlways(initialized) == TRUE
InitEffectRuns(initialized) == ~initialized

\* The pending timeout after clearTimeout(updateTimeoutRef.current), called
\* by the effect cleanup and at the start of the update effect.
AfterCleanupKept(timeout) == timeout
AfterCleanup(timeout) == NoTimeout

\* Log entry of that clearTimeout when a timeout was live.
CleanupLog(timeout) == IF timeout.pending THEN <<Cancelled>> ELSE <<>>

\* What handleContentChange does, in statement order, before starting its
\* settle timer.
ContentChangeEffectsLate(newContent) ==
    <<ChangeCall(newContent), ModeWrite("editing")>>
ContentChangeEffects(newContent) ==
    <<ModeWrite("editing"), ChangeCall(newContent)>>

\* What handlePaste does, in statement order, before starting its settle
\* timer: the callback is inside the branch that found a selection range.
PasteEffects(hasRange, newContent) ==
    IF hasRange THEN <<ModeWrite("editing"), ChangeCall(newContent)>>
                ELSE <<ModeWrite("editing")>>

\* The assignments to syncStateRef made by the deferred callback: none.
TickModeWritesGuarded == <<ModeWrite("syncing"), ModeWrite("idle")>>
TickModeWrites == <<>>

\* How the caret restoration of the deferred callback can end: set in the
\* first child, thrown and replaced by a caret at the end of the surface, or
\* thrown twice and ignored.
RestoreOutcomes == {"ok", "fallback", "ignored"}

SyncInitWith(initialContent) ==
    /\ content = initialContent
    /\ surface = <<>>
    /\ caret = -1
    /\ syncStateRef = "idle"
    /\ lastSyncedContentRef = content
    /\ updateTimeoutRef = NoTimeout
    /\ isInitializedRef = FALSE
    /\ settleTimers = {}
    /\ sinceInput = SettleWindow
    /\ deferred = FALSE
    /\ syncOp = "init"
    /\ effects = <<>>
    /\ touched = FALSE
    /\ lastEdit = "none"
    /\ flights = <<>>
    /\ letterClosing = NoClosing
    /\ fedBack = FALSE

SyncInit == \E initialContent \in Texts : SyncInitWith(initialContent)

\* The change callback is the page's setLetterContent (onContentChange=
\* {setLetterContent}): the history hook is not called, so a user edit leaves
\* the history as it is.
HistoryAfterEditPushed(h) == Append(h, 1)
HistoryAfterEdit(h) == h

\* What a user edit leaves of the history and of the page's bookkeeping;
\* called: whether the handler reached its change callback.
EditFrame(called) ==
    /\ history' = IF called THEN HistoryAfterEdit(history) ELSE history
    /\ UNCHANGED <<historyIndex, histOp, histArg, histRet, histPrev, pushRun, pureRun>>
    /\ fedBack' = FALSE
    /\ UNCHANGED <<flights, letterClosing>>
    /\ UNCHANGED restVars

\* First commit: the initialisation effect, then the update effect (which
\* finds content = lastSyncedContentRef and schedules nothing).
Mount ==
    /\ InitEffectRuns(isInitializedRef)
    /\ surface' = content
    /\ lastSyncedContentRef' = content
    /\ isInitializedRef' = TRUE
    /\ syncOp' = "mount"
    /\ effects' = <<>>
    /\ UNCHANGED <<content, caret, syncStateRef, updateTimeoutRef, settleTimers,
                   sinceInput, deferred, touched, lastEdit>>
    /\ UNCHANGED histVars
    /\ UNCHANGED pageVars
    /\ UNCHANGED restVars

\* The content prop changes to x from outside (generation result, undo/redo,
\* load): cleanup of the previous effect clears the pending timeout, the
\* initialisation effect runs again (and returns at its guard), the update
\* effect may schedule x.
ContentPropChange(x) ==
    /\ isInitializedRef
    /\ x # content
    /\ content' = x
    /\ IF InitEffectRuns(isInitializedRef)
       THEN surface' = x /\ lastSyncedContentRef' = x
       ELSE UNCHANGED <<surface, lastSyncedContentRef>>
    /\ updateTimeoutRef' =
           IF ShouldSchedule(x)
           THEN [pending |-> TRUE, content |-> x, currentContent |-> surface]
           ELSE AfterCleanup(updateTimeoutRef)
    /\ deferred' = (syncStateRef = "editing")
    /\ syncOp' = "external"
    /\ effects' = CleanupLog(updateTimeoutRef)
    /\ touched' = FALSE
    /\ UNCHANGED <<caret, syncStateRef, isInitializedRef, settleTimers,
                   sinceInput, lastEdit>>

\* The content prop changes with the history left alone (the hook on its
\* own, whatever the caller does).
ExternalUpdate(x) ==
    /\ ContentPropChange(x)
    /\ UNCHANGED histVars
    /\ UNCHANGED pageVars
    /\ UNCHANGED restVars

\* The deferred callback of the update effect runs.  measureFails: the caret
\* measurement throws (attempted only with the selection in the surface);
\* restore: how the restoration ends (attempted only with a first child).
UpdateTick(measureFails, restore) ==
    /\ updateTimeoutRef.pending
    /\ measureFails => (MayTouch(syncStateRef) /\ caret >= 0)
    /\ restore # "ok" => (MayTouch(syncStateRef) /\ updateTimeoutRef.content # <<>>)
    /\ IF MayTouch(syncStateRef)
       THEN LET cursorOffset ==
                    IF measureFails THEN Len(updateTimeoutRef.currentContent)
                                    ELSE CursorOffset(surface, caret)
            IN  /\ surface' = updateTimeoutRef.content
                /\ lastSyncedContentRef' = updateTimeoutRef.content
                /\ CASE restore = "ok" ->
                            caret' = RestoredCaret(updateTimeoutRef.content,
                                                   cursorOffset, caret)
                     [] restore = "fallback" ->
                            caret' = Len(updateTimeoutRef.content)
                     [] restore = "ignored" ->
                            caret' \in {-1} \cup (IF caret >= 0 THEN {0} ELSE {})
                /\ effects' = TickModeWrites
                                \o (IF measureFails THEN <<Caught("measure")>> ELSE <<>>)
                                \o (IF restore # "ok" THEN <<Caught("restore")>> ELSE <<>>)
       ELSE /\ UNCHANGED <<surface, lastSyncedContentRef, caret>>
            /\ effects' = <<>>
    /\ updateTimeoutRef' = NoTimeout
    /\ syncOp' = "tick"
    /\ touched' = FALSE
    /\ UNCHANGED <<content, syncStateRef, isInitializedRef, settleTimers,
                   sinceInput, deferred, lastEdit>>
    /\ UNCHANGED histVars
    /\ UNCHANGED pageVars
    /\ UNCHANGED restVars

\* handleContentChange with the surface holding domText: the change callback
\* is the page's setLetterContent, so the content prop follows and, when it
\* changed, the update effect re-runs (clears the timeout, schedules nothing
\* as the state is "editing").  The new settle timer is started with the
\* earlier ones left running: no handle is kept, none is cleared.
HandleContentChange(domText) ==
    /\ syncStateRef' = "editing"
    /\ lastSyncedContentRef' = domText
    /\ content' = domText
    /\ updateTimeoutRef' =
           IF domText # content THEN AfterCleanup(updateTimeoutRef)
                                ELSE updateTimeoutRef
    /\ effects' = ContentChangeEffects(domText)
                    \o (IF domText # content THEN CleanupLog(updateTimeoutRef)
                                             ELSE <<>>)
    /\ settleTimers' = settleTimers \cup {SettleWindow}
    /\ sinceInput' = 0
    /\ deferred' = FALSE
    /\ touched' = updateTimeoutRef'.pending
    /\ lastEdit' = "input"

\* The user types character c at the caret; the input event follows.
Type(c) ==
    /\ isInitializedRef
    /\ caret >= 0
    /\ Len(surface) < MaxLen
    /\ surface' = InsertAt(surface, caret, <<c>>)
    /\ caret' = caret + 1
    /\ HandleContentChange(surface')
    /\ syncOp' = "input"
    /\ UNCHANGED isInitializedRef
    /\ EditFrame(TRUE)

\* The user deletes the character before the caret; the input event follows.
Backspace ==
    /\ isInitializedRef
    /\ caret > 0
    /\ surface' = RemoveAt(surface, caret)
    /\ caret' = caret - 1
    /\ HandleContentChange(surface')
    /\ syncOp' = "input"
    /\ UNCHANGED isInitializedRef
    /\ EditFrame(TRUE)

\* handleKeyDown for a key press that produces no input event.
HandleKeyDown ==
    /\ isInitializedRef
    /\ caret >= 0
    /\ syncStateRef' = "editing"
    /\ deferred' = FALSE
    /\ syncOp' = "keydown"
    /\ effects' = <<ModeWrite("editing")>>
    /\ touched' = updateTimeoutRef.pending
    /\ UNCHANGED <<content, surface, caret, lastSyncedContentRef, updateTimeoutRef,
                   isInitializedRef, settleTimers, sinceInput, lastEdit>>
    /\ UNCHANGED histVars
    /\ fedBack' = FALSE
    /\ UNCHANGED <<flights, letterClosing>>
    /\ UNCHANGED restVars

\* handlePaste of clipboard text: inserted at the caret when the selection
\* has a range (caret >= 0), nothing inserted otherwise.
HandlePaste(text) ==
    /\ isInitializedRef
    /\ Len(surface) + Len(text) <= MaxLen
    /\ syncStateRef' = "editing"
    /\ IF caret >= 0
       THEN /\ surface' = InsertAt(surface, caret, text)
            /\ caret' = caret + Len(text)
            /\ lastSyncedContentRef' = surface'
            /\ content' = surface'
            /\ updateTimeoutRef' =
                   IF surface' # content THEN AfterCleanup(updateTimeoutRef)
                                         ELSE updateTimeoutRef
            /\ effects' = PasteEffects(TRUE, surface')
                            \o (IF surface' # content
                                THEN CleanupLog(updateTimeoutRef) ELSE <<>>)
       ELSE /\ UNCHANGED <<surface, caret, lastSyncedContentRef, content,
                           updateTimeoutRef>>
            /\ effects' = PasteEffects(FALSE, surface)
    /\ settleTimers' = settleTimers \cup {SettleWindow}
    /\ sinceInput' = 0
    /\ deferred' = FALSE
    /\ syncOp' = "paste"
    /\ touched' = updateTimeoutRef'.pending
    /\ lastEdit' = "paste"
    /\ UNCHANGED isInitializedRef
    /\ EditFrame(caret >= 0)

\* A settle timer that is due runs: syncStateRef.current = "idle".
SettleFire ==
    /\ 0 \in settleTimers
    /\ settleTimers' = settleTimers \ {0}
    /\ syncStateRef' = "idle"
    /\ syncOp' = "settle"
    /\ effects' = <<ModeWrite("idle")>>
    /\ UNCHANGED <<content, surface, caret, lastSyncedContentRef, updateTimeoutRef,
                   isInitializedRef, sinceInput, deferred, touched, lastEdit>>
    /\ UNCHANGED histVars
    /\ UNCHANGED pageVars
    /\ UNCHANGED restVars

\* The user moves the selection (click in the surface, focus elsewhere).
MoveCaret(c) ==
    /\ isInitializedRef
    /\ c # caret
    /\ caret' = c
    /\ syncOp' = "caret"
    /\ effects' = <<>>
    /\ UNCHANGED <<content, surface, syncStateRef, lastSyncedContentRef,
                   updateTimeoutRef, isInitializedRef, settleTimers, sinceInput,
                   deferred, touched, lastEdit>>
    /\ UNCHANGED histVars
    /\ UNCHANGED pageVars
    /\ UNCHANGED restVars

\* Time passes by one tick; timers that are due run first.
Advance ==
    /\ ~updateTimeoutRef.pending
    /\ 0 \notin settleTimers
    /\ settleTimers # {} \/ sinceInput < SettleWindow
    /\ settleTimers' = {t - TickMs : t \in settleTimers}
    /\ sinceInput' = Min(SettleWindow, sinceInput + TickMs)
    /\ syncOp' = "advance"
    /\ effects' = <<>>
    /\ UNCHANGED <<content, surface, caret, syncStateRef, lastSyncedContentRef,
                   updateTimeoutRef, isInitializedRef, deferred, touched, lastEdit>>
    /\ UNCHANGED histVars
    /\ UNCHANGED pageVars
    /\ UNCHANGED restVars

SyncNext ==
    \/ Mount
    \/ \E x \in Texts : ExternalUpdate(x)
    \/ \E measureFails \in BOOLEAN, restore \in RestoreOutcomes :
          UpdateTick(measureFails, restore)
    \/ \E c \in Chars : Type(c)
    \/ Backspace
    \/ HandleKeyDown
    \/ \E text \in PasteTexts : HandlePaste(text)
    \/ SettleFire
    \/ \E c \in -1..Len(surface) : MoveCaret(c)
    \/ Advance

(* ------------------------------ the page -------------------------------- *)

\* The page (HomeContent) owns letterContent, which is the hook's content
\* prop, the other letter fields and the history hook.  The content field of
\* a snapshot is a text of as many characters as its content number (0: the
\* empty text).
ContentOf(s) == [i \in 1..ContentId(s) |-> "a"]

DropAt(q, k) == SubSeq(q, 1, k - 1) \o SubSeq(q, k + 1, Len(q))

\* The closing lines: the empty one the page starts with, and texts.
NumClosings == 1
Closings == 0..NumClosings

\* Calls of generateLetter in flight at once, and the snapshots pushed, where
\* the calls are followed for their own sake.
MaxOverlap == 2
MaxGenHistory == 3

\* setLetterContent(x): a state setter given the current value causes no
\* re-render, any other value reaches the hook as a new content prop.
SetLetterContent(x) ==
    IF x # content
    THEN ContentPropChange(x)
    ELSE /\ syncOp' = "page"
         /\ effects' = <<>>
         /\ UNCHANGED <<content, surface, caret, syncStateRef, lastSyncedContentRef,
                        updateTimeoutRef, isInitializedRef, settleTimers, sinceInput,
                        deferred, touched, lastEdit>>

\* A page step that leaves letterContent alone.
PageOnly ==
    /\ syncOp' = "page"
    /\ effects' = <<>>
    /\ UNCHANGED <<content, surface, caret, syncStateRef, lastSyncedContentRef,
                   updateTimeoutRef, isInitializedRef, settleTimers, sinceInput,
                   deferred, touched, lastEdit>>

\* The calls in flight after the cursor was moved by an undo, redo or reset.
CursorMoved(q) == [k \in 1..Len(q) |-> [q[k] EXCEPT !.cursorMoved = TRUE]]

\* The calls in flight after the push of another call.
OtherPushed(q) == [k \in 1..Len(q) |-> [q[k] EXCEPT !.otherPushed = TRUE]]

\* generateLetter is called and awaits fetch: the call keeps the addState of
\* the render that created it, hence that render's historyIndex, and that
\* render's letterClosing and letterSignature.
GenerateLetterCalled ==
    /\ isInitializedRef
    /\ flights' = Append(flights, [historyIndex |-> historyIndex,
                                   letterClosing |-> letterClosing,
                                   cursorMoved |-> FALSE,
                                   otherPushed |-> FALSE])
    /\ PageOnly
    /\ UNCHANGED <<fedBack, letterClosing>>
    /\ UNCHANGED histVars
    /\ UNCHANGED restVars

\* The debounce timer of handleSendMessage calls generateLetter.
GenerateStart ==
    /\ Len(flights) < MaxFlights
    /\ Len(history) + Len(flights) < MaxPageHistory
    /\ GenerateLetterCalled

\* handleRegenerate calls generateLetter at once, whether or not a call is
\* in flight.
HandleRegenerate ==
    /\ Len(flights) < MaxOverlap
    /\ Len(history) + Len(flights) < MaxGenHistory
    /\ GenerateLetterCalled

\* The closing the completion writes into the letter state, and the closing
\* field of the snapshot it pushes.
NewClosing(dataClosing, closureClosing) ==
    IF dataClosing # NoClosing THEN dataClosing ELSE closureClosing
SnapshotClosing(dataClosing, closureClosing) == closureClosing

\* The response of the k-th call in flight arrives with content s and closing
\* dataClosing (NoClosing: none): the letter fields are set, then addState
\* pushes the snapshot.
GenerateDone(k, s, dataClosing) ==
    /\ k \in 1..Len(flights)
    /\ SetLetterContent(ContentOf(s))
    /\ letterClosing' = NewClosing(dataClosing, flights[k].letterClosing)
    /\ LET state == Snapshot(s, SnapshotClosing(dataClosing, flights[k].letterClosing))
           r == addState(history, flights[k].historyIndex, state)
       IN  /\ history' = r.history
           /\ historyIndex' = r.historyIndex
           /\ histArg' = state
    /\ histOp' = "addState"
    /\ histRet' = Null
    /\ flights' = OtherPushed(DropAt(flights, k))
    /\ fedBack' = FALSE
    /\ UNCHANGED <<histPrev, pushRun, pureRun>>
    /\ UNCHANGED restVars

\* The k-th call in flight fails (fetch rejects or the response is not ok):
\* only the error message is set.
GenerateFail(k) ==
    /\ k \in 1..Len(flights)
    /\ flights' = DropAt(flights, k)
    /\ PageOnly
    /\ UNCHANGED <<fedBack, letterClosing>>
    /\ UNCHANGED histVars
    /\ UNCHANGED restVars

\* handleUndo: undo(), and when it returned a snapshot the letter fields are
\* set from it.
HandleUndo ==
    /\ isInitializedRef
    /\ LET r == undo(history, historyIndex)
       IN  /\ historyIndex' = r.historyIndex
           /\ histRet' = r.ret
           /\ IF r.ret # Null
              THEN /\ SetLetterContent(ContentOf(r.ret))
                   /\ letterClosing' = ClosingOf(r.ret)
                   /\ fedBack' = TRUE
                   /\ flights' = CursorMoved(flights)
              ELSE PageOnly /\ UNCHANGED <<fedBack, letterClosing, flights>>
    /\ histOp' = "undo"
    /\ histArg' = Null
    /\ UNCHANGED <<history, histPrev, pushRun, pureRun>>
    /\ UNCHANGED restVars

\* handleRedo: redo(), and when it returned a snapshot the letter fields are
\* set from it.
HandleRedo ==
    /\ isInitializedRef
    /\ LET r == redo(history, historyIndex)
       IN  /\ historyIndex' = r.historyIndex
           /\ histRet' = r.ret
           /\ IF r.ret # Null
              THEN /\ SetLetterContent(ContentOf(r.ret))
                   /\ letterClosing' = ClosingOf(r.ret)
                   /\ fedBack' = TRUE
                   /\ flights' = CursorMoved(flights)
              ELSE PageOnly /\ UNCHANGED <<fedBack, letterClosing, flights>>
    /\ histOp' = "redo"
    /\ histArg' = Null
    /\ UNCHANGED <<history, histPrev, pushRun, pureRun>>
    /\ UNCHANGED restVars

\* A saved letter with content ContentOf(s) and no closing is loaded: the
\* letter fields are set and the history is reset.
LoadLetter(s) ==
    /\ isInitializedRef
    /\ SetLetterContent(ContentOf(s))
    /\ letterClosing' = NoClosing
    /\ history' = <<>>
    /\ historyIndex' = -1
    /\ histOp' = "reset"
    /\ histArg' = Null
    /\ histRet' = Null
    /\ fedBack' = FALSE
    /\ flights' = CursorMoved(flights)
    /\ UNCHANGED <<histPrev, pushRun, pureRun>>
    /\ UNCHANGED restVars

\* The page with its editor; the responses carry no closing.
PageNext ==
    \/ Mount
    \/ \E measureFails \in BOOLEAN, restore \in RestoreOutcomes :
          UpdateTick(measureFails, restore)
    \/ \E c \in Chars : Type(c)
    \/ Backspace
    \/ HandleKeyDown
    \/ \E text \in PasteTexts : HandlePaste(text)
    \/ SettleFire
    \/ \E c \in -1..Len(surface) : MoveCaret(c)
    \/ Advance
    \/ GenerateStart
    \/ \E k \in 1..MaxFlights, s \in Snapshots : GenerateDone(k, s, NoClosing)
    \/ \E k \in 1..MaxFlights : GenerateFail(k)
    \/ HandleUndo
    \/ HandleRedo
    \/ \E s \in 0..NumSnapshots : LoadLetter(s)

\* The page with nobody typing: generations, regenerations, undo and redo.
GenNext ==
    \/ Mount
    \/ \E measureFails \in BOOLEAN, restore \in RestoreOutcomes :
          UpdateTick(measureFails, restore)
    \/ HandleRegenerate
    \/ \E k \in 1..MaxOverlap, s \in Snapshots, dataClosing \in Closings :
          GenerateDone(k, s, dataClosing)
    \/ \E k \in 1..MaxOverlap : GenerateFail(k)
    \/ HandleUndo
    \/ HandleRedo

(* ---------------------- withDeduplication: steps ------------------------ *)

\* The promises of a key whose finally callback has not run yet.
InFlight(key) ==
    {p \in 1..Len(promises) : promises[p].key = key /\ ~promises[p].finalised}

\* The map after the callback given to finally ran for a promise of key that
\* settled with outcome: the entry is deleted whatever the outcome.
AfterFinallyOnSuccessOnly(map, key, outcome) ==
    IF outcome = "resolved" THEN [map EXCEPT ![key] = NoEntry] ELSE map
AfterFinally(map, key, outcome) == [map EXCEPT ![key] = NoEntry]

\* withDeduplication(key, requestFn) runs to its return without yielding.
\* throws: requestFn throws before returning a promise (the async function
\* then rejects and nothing is stored).  Each caller is recorded with the
\* promises of its key that were in flight when it called.
DedupCall(key, throws) ==
    /\ Len(callers) < MaxCalls
    /\ throws => pendingRequests[key] = NoEntry
    /\ LET pending == pendingRequests[key]
           seen == InFlight(key)
       IN  IF pending # NoEntry
           THEN /\ callers' = Append(callers, [key |-> key, promise |-> pending,
                                               invoked |-> FALSE, inFlight |-> seen])
                /\ UNCHANGED <<pendingRequests, promises>>
           ELSE IF throws
           THEN /\ callers' = Append(callers, [key |-> key, promise |-> NoEntry,
                                               invoked |-> TRUE, inFlight |-> seen])
                /\ UNCHANGED <<pendingRequests, promises>>
           ELSE /\ promises' = Append(promises, [key |-> key, state |-> "pending",
                                                 finalised |-> FALSE])
                /\ pendingRequests' = [pendingRequests EXCEPT ![key] = Len(promises) + 1]
                /\ callers' = Append(callers, [key |-> key, promise |-> Len(promises) + 1,
                                               invoked |-> TRUE, inFlight |-> seen])
    /\ dedupOp' = "call"

WithDeduplication(key, throws) ==
    /\ DedupCall(key, throws)
    /\ UNCHANGED <<clientVars, debounceVars, pdfVars, cacheVars, rateVars, filesVars>>

\* The promise requestFn returned settles.
Settle(p, outcome) ==
    /\ p \in 1..Len(promises)
    /\ promises[p].state = "pending"
    /\ promises' = [promises EXCEPT ![p].state = outcome]
    /\ dedupOp' = "settle"
    /\ UNCHANGED <<pendingRequests, callers>>
    /\ UNCHANGED <<clientVars, debounceVars, pdfVars, cacheVars, rateVars, filesVars>>

\* The finally callback of a settled promise runs; the promise the callers
\* hold then settles the same way.
Finally(p) ==
    /\ p \in 1..Len(promises)
    /\ promises[p].state # "pending"
    /\ ~promises[p].finalised
    /\ promises' = [promises EXCEPT ![p].finalised = TRUE]
    /\ pendingRequests' = AfterFinally(pendingRequests, promises[p].key, promises[p].state)
    /\ dedupOp' = "finally"
    /\ UNCHANGED callers
    /\ UNCHANGED <<clientVars, debounceVars, pdfVars, cacheVars, rateVars, filesVars>>

DedupNext ==
    \/ \E key \in Keys, throws \in BOOLEAN : WithDeduplication(key, throws)
    \/ \E p \in 1..MaxCalls, outcome \in {"resolved", "rejected"} : Settle(p, outcome)
    \/ \E p \in 1..MaxCalls : Finally(p)

(* ---------------------- handleSendMessage: steps ------------------------ *)

\* The live timers after clearTimeout(debounceTimerRef.current).
AfterClearTimeoutKept(timers, handle) == timers
AfterClearTimeout(timers, handle) == {t \in timers : t.call # handle}

\* handleSendMessage(message, fileIds): the timer the ref holds is cleared
\* and a new one is set, its handle stored in the ref.
HandleSendMessage(message) ==
    /\ sendCount < MaxSends
    /\ sendCount' = sendCount + 1
    /\ sendTimers' = AfterClearTimeout(sendTimers, debounceTimerRef)
                       \cup {[call |-> sendCount', message |-> message,
                              remaining |-> DebounceDelay]}
    /\ debounceTimerRef' = sendCount'
    /\ sinceSend' = 0
    /\ sendOp' = "send"
    /\ UNCHANGED requestLog
    /\ UNCHANGED <<clientVars, dedupVars, pdfVars, cacheVars, rateVars, filesVars>>

\* A timer that is due runs: generateLetter(message, fileIds, "generate"),
\* then the ref is set to null.
SendTimerFires(t) ==
    /\ t \in sendTimers
    /\ t.remaining = 0
    /\ sendTimers' = sendTimers \ {t}
    /\ requestLog' = Append(requestLog, [call |-> t.call, message |-> t.message,
                                         after |-> sinceSend])
    /\ debounceTimerRef' = 0
    /\ sendOp' = "fire"
    /\ UNCHANGED <<sendCount, sinceSend>>
    /\ UNCHANGED <<clientVars, dedupVars, pdfVars, cacheVars, rateVars, filesVars>>

\* Time passes by one step; timers that are due run first.
DebounceAdvance ==
    /\ sendTimers # {}
    /\ \A t \in sendTimers : t.remaining > 0
    /\ sendTimers' = {[t EXCEPT !.remaining = @ - DebounceTickMs] : t \in sendTimers}
    /\ sinceSend' = Min(DebounceDelay, sinceSend + DebounceTickMs)
    /\ sendOp' = "advance"
    /\ UNCHANGED <<debounceTimerRef, sendCount, requestLog>>
    /\ UNCHANGED <<clientVars, dedupVars, pdfVars, cacheVars, rateVars, filesVars>>

DebounceNext ==
    \/ \E message \in Messages : HandleSendMessage(message)
    \/ \E t \in sendTimers : SendTimerFires(t)
    \/ DebounceAdvance

(* -------------------- POST /api/letter/generate: steps ------------------ *)

\* entry.expiresAt < Date.now()
ExpiredNever(entry, now) == FALSE
Expired(entry, now) == entry.expiresAt < now

\* getCachedResponse(key) at time now: whether it returns data, the entry
\* returned, and the store it leaves (an expired entry is deleted).
getCachedResponse(store, key, now) ==
    LET found == {e \in store : e.key = key}
    IN  IF found = {}
        THEN [hit |-> FALSE, store |-> store, data |-> NoEntry, expiresAt |-> 0]
        ELSE LET entry == CHOOSE e \in found : TRUE
             IN  IF Expired(entry, now)
                 THEN [hit |-> FALSE, store |-> store \ {entry},
                       data |-> NoEntry, expiresAt |-> 0]
                 ELSE [hit |-> TRUE, store |-> store,
                       data |-> entry.data, expiresAt |-> entry.expiresAt]

\* setCachedResponse(key, data, ttlMs) at time now.
setCachedResponse(store, key, data, now) ==
    {e \in store : e.key # key}
        \cup {[key |-> key, data |-> data, expiresAt |-> now + TtlTicks]}

CacheFrame == UNCHANGED <<clientVars, debounceVars, pdfVars, rateVars, filesVars>>

\* A valid request with mode "generate" and no file ids, whose body hashes
\* to key, from the cache lookup to the await of withDeduplication, which
\* run without yielding: a cache hit is answered at once; otherwise the
\* request joins the pending promise of its key or starts execute().
GenerateRequest(key) ==
    /\ Len(served) < MaxCalls
    /\ LET cached == getCachedResponse(cacheStore, key, cacheNow)
       IN  /\ cacheStore' = cached.store
           /\ IF cached.hit
              THEN /\ served' = Append(served,
                         [key |-> key, how |-> "hit", at |-> cacheNow,
                          promise |-> cached.data, expiresAt |-> cached.expiresAt])
                   /\ UNCHANGED <<dedupVars, settledAt>>
              ELSE /\ DedupCall(key, FALSE)
                   /\ served' = Append(served,
                         [key |-> key,
                          how |-> IF pendingRequests[key] # NoEntry
                                  THEN "joined" ELSE "executed",
                          at |-> cacheNow,
                          promise |-> IF pendingRequests[key] # NoEntry
                                      THEN pendingRequests[key]
                                      ELSE Len(promises) + 1,
                          expiresAt |-> 0])
                   /\ settledAt' = IF pendingRequests[key] # NoEntry
                                   THEN settledAt ELSE Append(settledAt, -1)
    /\ cacheOp' = "request"
    /\ UNCHANGED cacheNow
    /\ CacheFrame

\* execute() of promise p ends: with a result, which it stores in the cache
\* before returning, or by throwing (the OpenAI call or the parsing failed).
ExecuteEnds(p, outcome) ==
    /\ p \in 1..Len(promises)
    /\ promises[p].state = "pending"
    /\ promises' = [promises EXCEPT ![p].state = outcome]
    /\ cacheStore' = IF outcome = "resolved"
                     THEN setCachedResponse(cacheStore, promises[p].key, p, cacheNow)
                     ELSE cacheStore
    /\ settledAt' = [settledAt EXCEPT ![p] = cacheNow]
    /\ dedupOp' = "settle"
    /\ cacheOp' = "execute"
    /\ UNCHANGED <<pendingRequests, callers, cacheNow, served>>
    /\ CacheFrame

\* Time passes.
CacheAdvance ==
    /\ cacheNow < MaxNow
    /\ cacheNow' = cacheNow + 1
    /\ cacheOp' = "advance"
    /\ UNCHANGED <<cacheStore, served, settledAt>>
    /\ UNCHANGED dedupVars
    /\ CacheFrame

CacheNext ==
    \/ \E key \in CacheKeys : GenerateRequest(key)
    \/ \E p \in 1..MaxCalls, outcome \in {"resolved", "rejected"} : ExecuteEnds(p, outcome)
    \/ \E p \in 1..MaxCalls : Finally(p)
    \/ CacheAdvance

(* -------------------------- checkRateLimit: steps ----------------------- *)

\* value.resetTime < now, the test of the clean-up loop
StaleOrDue(value, now) == value.resetTime <= now
Stale(value, now) == value.resetTime < now

\* entry.count >= config.maxRequests
OverLimit(entry) == entry.count > MaxRequests
AtLimit(entry) == entry.count >= MaxRequests

\* rateLimitStore.set(clientId, {count, resetTime})
RateSet(store, clientId, count, resetTime) ==
    {e \in store : e.clientId # clientId}
        \cup {[clientId |-> clientId, count |-> count, resetTime |-> resetTime]}

\* checkRateLimit(clientId, config) at time now; cleanup: Math.random() was
\* below 0.01.  The entry is read before the clean-up runs.  Gives the store
\* left and what is returned (returned "null": the call is denied).
checkRateLimit(store, clientId, now, cleanup) ==
    LET found == {e \in store : e.clientId = clientId}
        cleaned == IF cleanup THEN {e \in store : ~Stale(e, now)} ELSE store
    IN  IF found = {} \/ (\E entry \in found : entry.resetTime < now)
        THEN [store |-> RateSet(cleaned, clientId, 1, now + WindowTicks),
              returned |-> "result",
              result |-> [allowed |-> TRUE, remaining |-> MaxRequests - 1,
                          resetTime |-> now + WindowTicks]]
        ELSE LET entry == CHOOSE e \in found : TRUE
             IN  IF AtLimit(entry)
                 THEN [store |-> cleaned, returned |-> "null", result |-> NoResult]
                 ELSE [store |-> RateSet(cleaned, clientId, entry.count + 1,
                                         entry.resetTime),
                       returned |-> "result",
                       result |-> [allowed |-> TRUE,
                                   remaining |-> MaxRequests - (entry.count + 1),
                                   resetTime |-> entry.resetTime]]

\* The fixed window of one client after a call of that client at time now:
\* a call after the window's resetTime (or the first call) opens a window.
WindowAfter(w, now) ==
    IF w.resetTime = -1 \/ now > w.resetTime
    THEN [resetTime |-> now + WindowTicks, allowed |-> 1, denied |-> FALSE]
    ELSE IF w.allowed < MaxRequests
    THEN [w EXCEPT !.allowed = @ + 1]
    ELSE [w EXCEPT !.denied = TRUE]

RateFrame == UNCHANGED <<clientVars, dedupVars, debounceVars, pdfVars, cacheVars, filesVars>>

\* A call of checkRateLimit.
CheckRateLimit(clientId, cleanup) ==
    /\ LET r == checkRateLimit(rateLimitStore, clientId, rateNow, cleanup)
           w == fixedWindow[clientId]
       IN  /\ rateLimitStore' = r.store
           /\ lastCheck' = [clientId |-> clientId, returned |-> r.returned,
                            result |-> r.result, cleanup |-> cleanup,
                            before |-> {e \in rateLimitStore : e.clientId = clientId},
                            unblocked |-> w.denied /\ rateNow > w.resetTime]
           /\ fixedWindow' = [fixedWindow EXCEPT ![clientId] = WindowAfter(w, rateNow)]
    /\ rateOp' = "check"
    /\ UNCHANGED rateNow
    /\ RateFrame

\* Time passes.
RateAdvance ==
    /\ rateNow < MaxRateNow
    /\ rateNow' = rateNow + 1
    /\ rateOp' = "advance"
    /\ UNCHANGED <<rateLimitStore, lastCheck, fixedWindow>>
    /\ RateFrame

RateNext ==
    \/ \E clientId \in ClientIds, cleanup \in BOOLEAN : CheckRateLimit(clientId, cleanup)
    \/ RateAdvance

(* ----------------------------- ChatInput: steps ------------------------- *)

RECURSIVE TotalSize(_)
\* uploadedFiles.reduce((sum, f) => sum + f.size, 0)
TotalSize(fs) == IF fs = <<>> THEN 0 ELSE fs[1].size + TotalSize(Tail(fs))

RECURSIVE Validate(_, _, _, _, _)
\* The validation loop of handleFileSelect from the i-th selected file on:
\* the files it will add.  count and currentTotalSize are those of the
\* list at the start of the handler.
Validate(files, i, filesToAdd, count, currentTotalSize) ==
    IF i > Len(files) THEN filesToAdd
    ELSE IF count + Len(filesToAdd) >= MAX_FILES THEN filesToAdd
    ELSE LET file == files[i]
             maxSize == IF file.audio THEN MaxAudioSize ELSE MaxOtherSize
         IN  IF file.size > maxSize
             THEN Validate(files, i + 1, filesToAdd, count, currentTotalSize)
             ELSE IF currentTotalSize + file.size > MAX_TOTAL_SIZE
             THEN Validate(files, i + 1, filesToAdd, count, currentTotalSize)
             ELSE Validate(files, i + 1, Append(filesToAdd, file), count,
                           currentTotalSize)

FilesFrame ==
    UNCHANGED <<clientVars, dedupVars, debounceVars, pdfVars, cacheVars, rateVars>>

\* handleFileSelect up to its first await: the selected files are validated
\* and the accepted ones are appended, not yet uploaded.
HandleFileSelect(files) ==
    /\ LET filesToAdd == Validate(files, 1, <<>>, Len(uploadedFiles),
                                  TotalSize(uploadedFiles))
       IN  uploadedFiles' = uploadedFiles \o
               [k \in 1..Len(filesToAdd) |->
                   [size |-> filesToAdd[k].size, fileId |-> FALSE]]
    /\ filesOp' = "select"
    /\ FilesFrame

\* The upload of the i-th attached file ends: it gets its fileId, or on a
\* failure it is taken off the list.
UploadEnds(i, ok) ==
    /\ i \in 1..Len(uploadedFiles)
    /\ ~uploadedFiles[i].fileId
    /\ uploadedFiles' = IF ok THEN [uploadedFiles EXCEPT ![i].fileId = TRUE]
                              ELSE DropAt(uploadedFiles, i)
    /\ filesOp' = "upload"
    /\ FilesFrame

\* removeFile
RemoveFile(i) ==
    /\ i \in 1..Len(uploadedFiles)
    /\ uploadedFiles' = DropAt(uploadedFiles, i)
    /\ filesOp' = "remove"
    /\ FilesFrame

\* handleSubmit with something to send: the list is emptied.
HandleSubmit ==
    /\ uploadedFiles' = <<>>
    /\ filesOp' = "submit"
    /\ FilesFrame

FilesNext ==
    \/ \E files \in Batches : HandleFileSelect(files)
    \/ \E i \in 1..MAX_FILES, ok \in BOOLEAN : UploadEnds(i, ok)
    \/ \E i \in 1..MAX_FILES : RemoveFile(i)
    \/ HandleSubmit

(* -------------------------- POST /api/pdf: steps ------------------------- *)

PdfIndex(step) == CHOOSE i \in 1..Len(PdfSteps) : PdfSteps[i] = step

\* The browser after the catch block: closed if one was launched.
AfterCatchLeftOpen(browser) == browser
AfterCatch(browser) == IF browser = "none" THEN "none" ELSE "closed"

PdfFrame == UNCHANGED <<clientVars, dedupVars, debounceVars, cacheVars, rateVars, filesVars>>

\* await req.json(), before the try block: a body that is not JSON makes the
\* handler reject (no response of its own).
PdfJson(r, throws) ==
    /\ pdfRequests[r].pc = "json"
    /\ pdfRequests' = [pdfRequests EXCEPT ![r] =
           IF throws THEN [@ EXCEPT !.pc = "done", !.response = "unhandled",
                                    !.failed = TRUE]
                     ELSE [@ EXCEPT !.pc = "launch"]]
    /\ pdfOp' = "json"
    /\ PdfFrame

\* The launch: no executable path or a failed launch throws into the catch
\* block with browser undefined; a launch that succeeds, at once or through
\* the @sparticuz/chromium fallback, assigns browser.
PdfLaunch(r, outcome) ==
    /\ pdfRequests[r].pc = "launch"
    /\ pdfRequests' = [pdfRequests EXCEPT ![r] =
           IF outcome = "throws"
           THEN [@ EXCEPT !.pc = "catch", !.failed = TRUE]
           ELSE [@ EXCEPT !.pc = PdfSteps[1], !.browser = "open"]]
    /\ pdfOp' = "launch"
    /\ PdfFrame

\* One step after the launch.  A throw goes to the catch block, except in
\* the font wait, which has its own try/catch and continues; browser.close()
\* closes the browser; the last step returns the PDF response.
PdfStep(r, throws) ==
    /\ pdfRequests[r].pc \in {PdfSteps[i] : i \in 1..Len(PdfSteps)}
    /\ throws => pdfRequests[r].pc # "close"
    /\ LET step == pdfRequests[r].pc
           i == PdfIndex(step)
       IN  pdfRequests' = [pdfRequests EXCEPT ![r] =
               IF throws /\ step # "fonts"
               THEN [@ EXCEPT !.pc = "catch", !.failed = TRUE]
               ELSE IF step = "close"
               THEN [@ EXCEPT !.pc = PdfSteps[i + 1], !.browser = "closed"]
               ELSE IF step = "respond"
               THEN [@ EXCEPT !.pc = "done", !.response = "pdf"]
               ELSE [@ EXCEPT !.pc = PdfSteps[i + 1]]]
    /\ pdfOp' = "step"
    /\ PdfFrame

\* The catch block: browser.close() if a browser was assigned, then the 500
\* JSON response.
PdfCatch(r) ==
    /\ pdfRequests[r].pc = "catch"
    /\ pdfRequests' = [pdfRequests EXCEPT ![r] =
           [@ EXCEPT !.pc = "done", !.browser = AfterCatch(@),
                     !.response = "json500"]]
    /\ pdfOp' = "catch"
    /\ PdfFrame

PdfNext ==
    \/ \E r \in PdfIds, throws \in BOOLEAN : PdfJson(r, throws)
    \/ \E r \in PdfIds, outcome \in {"ok", "fallback", "throws"} : PdfLaunch(r, outcome)
    \/ \E r \in PdfIds, throws \in BOOLEAN : PdfStep(r, throws)
    \/ \E r \in PdfIds : PdfCatch(r)

(* -------------------------- specifications ----------------------------- *)

Init == HistInit /\ SyncInit

\* The history hook alone, every call made through the callbacks of the
\* latest render (page.tsx starts with letterContent = "").
HistoryInit == HistInit /\ SyncInitWith(<<>>)

HistorySpec == HistoryInit /\ [][HistoryNext]_vars

\* The synchronisation hook alone.
SyncSpec == Init /\ [][SyncNext]_vars

\* The server modules start with empty stores; the letter page, which they
\* do not touch, is left in its initial state.
ServerInit == HistInit /\ SyncInitWith(<<>>)

\* withDeduplication alone.
DedupSpec == ServerInit /\ [][DedupNext]_vars

\* The generate endpoint's cache and in-flight map.
CacheSpec == ServerInit /\ [][CacheNext]_vars

\* The rate limiter called by several clients.
RateSpec == ServerInit /\ [][RateNext]_vars

\* The attachments of the chat input.
FilesSpec == ServerInit /\ [][FilesNext]_vars

\* The PDF endpoint, several requests at once.
PdfSpec == ServerInit /\ [][PdfNext]_vars

\* handleSendMessage and its timers alone.
DebounceSpec == ServerInit /\ [][DebounceNext]_vars

\* The page: both hooks, the content prop changing only as the page sets it.
PageInit == HistInit /\ SyncInitWith(<<>>)

PageSpec == PageInit /\ [][PageNext]_vars

\* Generations, regenerations, undo and redo on the page.
GenSpec == PageInit /\ [][GenNext]_vars

(* ------------------------------ claims --------------------------------- *)

\* C1: while syncStateRef is "editing", neither a change of the content prop
\* nor the deferred callback scheduled before the edit changes the surface's
\* text or the caret.
C1_EditingNotInterrupted ==
    [][(syncStateRef = "editing" /\ syncOp' \in {"external", "tick"})
          => (surface' = surface /\ caret' = caret)]_vars

\* The deferred callback ran while the state was "editing" and left the
\* surface different from the content prop.
C1_Witness ==
    /\ syncOp = "tick"
    /\ syncStateRef = "editing"
    /\ surface # content

\* C2 (as claimed): an external value that arrived while "editing" is not
\* lost.  With no user event since it arrived, once the state is back to
\* "idle" and no deferred write is pending, nothing is left that could
\* still write it, so the surface must already show it.
C2_DeferredUpdateApplies ==
    (deferred /\ syncStateRef = "idle" /\ ~updateTimeoutRef.pending)
        => surface = content

\* C3 (as claimed): the state does not return to "idle" sooner than one
\* full settle window after the last handleContentChange/handlePaste call.
C3_Debounce ==
    sinceInput < SettleWindow => syncStateRef = "editing"

\* C4 (as claimed): the state is never stuck in "editing": whenever it is
\* "editing" a settle timer is pending that will return it to "idle".
C4_NeverStuck ==
    syncStateRef = "editing" => settleTimers # {}

\* C10 (as claimed): an external value x scheduled while not "editing"
\* (x differs from the last-committed text and from the surface) whose
\* deferred callback runs next, with no event in between and no DOM call
\* throwing, leaves surface = x, last-committed = x and the caret at
\* min(prior offset, len(x)), the offset of a caret that is not inside the
\* surface counting as 0.
C10_IdleUpdateApplies ==
    [][(/\ syncOp = "external" /\ updateTimeoutRef.pending /\ syncOp' = "tick"
        /\ Kinds(effects', "measure") = <<>>
        /\ Kinds(effects', "restore") = <<>>)
          => /\ surface' = updateTimeoutRef.content
             /\ lastSyncedContentRef' = updateTimeoutRef.content
             /\ Max(caret', 0) =
                    Min(Max(caret, 0), Len(updateTimeoutRef.content))]_vars

\* C5: a push discards every snapshot after the cursor before appending and
\* leaves the cursor on the new snapshot, the last one; the snapshot before
\* the new one is the one that was current at the push; a redo() right
\* after a push returns the no-op sentinel and changes nothing.
C5_PushTruncates ==
    [][/\ histOp' = "addState" =>
            /\ historyIndex' = Len(history') - 1
            /\ At(history', historyIndex') = histArg'
            /\ Len(history') <= historyIndex + 2
            /\ \A j \in 1..(Len(history') - 1) :
                   history'[j] = history[historyIndex + 1 - (Len(history') - 1) + j]
            /\ historyIndex >= 0 =>
                   At(history', historyIndex' - 1) = At(history, historyIndex)
       /\ (histOp = "addState" /\ histOp' = "redo") =>
            /\ histRet' = Null
            /\ history' = history
            /\ historyIndex' = historyIndex]_vars

\* A push was issued after undo() with the cursor before the end, and the
\* redo branch is gone.
C5_Witness ==
    /\ histOp = "addState"
    /\ histPrev.op = "undo"
    /\ histPrev.historyIndex >= 0
    /\ histPrev.historyIndex < Len(histPrev.history) - 1
    /\ Len(history) = histPrev.historyIndex + 2

C7_IndexInRange ==
    /\ -1 <= historyIndex
    /\ historyIndex < Len(history)
    /\ Len(history) <= maxHistorySize
    /\ historyIndex = -1 => history = <<>>

\* A full buffer whose cursor undo() has brought down to the first entry.
C7_Witness ==
    /\ Len(history) = maxHistorySize
    /\ historyIndex = 0
    /\ histOp = "undo"

\* C8: a redo() right after an undo() that returned a snapshot returns the
\* snapshot that was current before the undo(), restores that index and
\* leaves the stored sequence as it was.
C8_UndoRedoRoundTrip ==
    [][(histOp = "undo" /\ histRet # Null /\ histOp' = "redo") =>
          /\ histRet' = At(histPrev.history, histPrev.historyIndex)
          /\ historyIndex' = histPrev.historyIndex
          /\ history' = histPrev.history]_vars

\* redo() has just returned a snapshot right after an undo() that did.
C8_Witness ==
    /\ histOp = "redo"
    /\ histRet # Null
    /\ histPrev.op = "undo"
    /\ histPrev.ret # Null

\* C9: undo() with historyIndex <= 0 and redo() with historyIndex = length - 1
\* return the no-op sentinel and leave index and snapshots unchanged.
C9_BoundaryNoOp ==
    [][/\ (histOp' = "undo" /\ historyIndex <= 0) =>
            (histRet' = Null /\ historyIndex' = historyIndex /\ history' = history)
       /\ (histOp' = "redo" /\ historyIndex = Len(history) - 1) =>
            (histRet' = Null /\ historyIndex' = historyIndex /\ history' = history)]_vars

\* redo() at the end of a non-empty buffer returned the sentinel.
C9_Witness ==
    /\ histOp = "redo"
    /\ histRet = Null
    /\ history # <<>>
    /\ historyIndex = Len(history) - 1
    /\ histPrev.historyIndex = historyIndex

\* C11: when handleContentChange returns on a mounted surface the mode is
\* "editing", the mode was assigned before the change callback ran, the
\* callback ran exactly once with the surface's full text, and that text is
\* also the last-committed text.
C11_InputCommits ==
    syncOp = "input" =>
        /\ syncStateRef = "editing"
        /\ Len(Kinds(effects, "change")) = 1
        /\ Kinds(effects, "change")[1].text = surface
        /\ effects[1] = ModeWrite("editing")
        /\ lastSyncedContentRef = surface
        /\ content = surface

\* An input event has just been handled on a non-empty surface.
C11_Witness ==
    /\ syncOp = "input"
    /\ surface # <<>>
    /\ Kinds(effects, "change") = <<ChangeCall(surface)>>

\* C12 (as claimed): the mode goes idle -> editing only on user input or
\* paste, editing -> idle only when a settle timer fires, passes through
\* "syncing" and back to idle while the deferred callback writes an external
\* update, is left alone by an external update arriving while "editing",
\* and changes in no other way.
C12_StateMachineAsClaimed ==
    [][/\ (syncStateRef = "idle" /\ syncStateRef' = "editing")
            => syncOp' \in {"input", "paste"}
       /\ (syncStateRef = "editing" /\ syncStateRef' = "idle")
            => syncOp' = "settle"
       /\ (syncOp' = "tick" /\ syncStateRef = "idle")
            => Kinds(effects', "mode") = <<ModeWrite("syncing"), ModeWrite("idle")>>
       /\ (syncStateRef = "editing" /\ syncOp' \in {"external", "tick"})
            => (syncStateRef' = "editing" /\ Kinds(effects', "mode") = <<>>)
       /\ syncStateRef' # syncStateRef
            => <<syncStateRef, syncStateRef'>> \in
                   {<<"idle", "editing">>, <<"editing", "idle">>}]_vars

\* C12 (amended): the mode only takes the values "idle" and "editing"; it
\* goes idle -> editing only on user input, paste or key press, editing ->
\* idle only when a settle timer fires; the update effect and its deferred
\* callback never assign the mode ("syncing" is never entered).
C12_StateMachine ==
    [][/\ syncStateRef' \in {"idle", "editing"}
       /\ \A i \in 1..Len(effects') :
              effects'[i].kind = "mode" => effects'[i].mode \in {"idle", "editing"}
       /\ (syncStateRef = "idle" /\ syncStateRef' = "editing")
            => syncOp' \in {"input", "paste", "keydown"}
       /\ (syncStateRef = "editing" /\ syncStateRef' = "idle")
            => syncOp' = "settle"
       /\ syncOp' \in {"external", "tick"}
            => (syncStateRef' = syncStateRef /\ Kinds(effects', "mode") = <<>>)]_vars

\* The deferred callback has just written an external update in mode "idle".
C12_Witness ==
    /\ syncOp = "tick"
    /\ syncStateRef = "idle"
    /\ surface = content
    /\ lastSyncedContentRef = content
    /\ surface # <<>>

\* C13: a change of the content prop to a value equal to the last-committed
\* text or to the surface's text leaves the surface, the caret, the
\* last-committed text and the mode unchanged, and no deferred write is
\* pending afterwards.
C13_EqualUpdateIsNoOp ==
    [][(syncOp' = "external"
          /\ (content' = lastSyncedContentRef \/ content' = surface))
          => /\ surface' = surface
             /\ caret' = caret
             /\ lastSyncedContentRef' = lastSyncedContentRef
             /\ syncStateRef' = syncStateRef
             /\ ~updateTimeoutRef'.pending]_vars

\* In mode "idle" the content prop came back to the text the surface shows
\* while another value was pending, and nothing is scheduled.
C13_Witness ==
    /\ syncOp = "external"
    /\ syncStateRef = "idle"
    /\ content = surface
    /\ content = lastSyncedContentRef
    /\ effects = <<Cancelled>>
    /\ ~updateTimeoutRef.pending

\* C14: of several changes of the content prop made before the deferred
\* callback runs only the most recent can be written: a pending timeout
\* always carries the current content prop (each change clears the previous
\* timeout), and the callback leaves the surface as it was or showing the
\* current content prop.
C14_LastUpdateWins ==
    [][/\ updateTimeoutRef.pending => updateTimeoutRef.content = content
       /\ syncOp' = "tick" => (surface' = surface \/ surface' = content)]_vars

\* In mode "idle" a second change of the content prop has just replaced the
\* timeout that was pending for the first.
C14_Witness ==
    /\ syncOp = "external"
    /\ syncStateRef = "idle"
    /\ effects = <<Cancelled>>
    /\ updateTimeoutRef.pending
    /\ updateTimeoutRef.content = content

\* C15 (as claimed): when a user input, paste or key press has come between
\* the scheduling of a deferred write and the run of its callback, the
\* callback does not write to the surface.
C15_UserEventBeatsTick ==
    [][(syncOp' = "tick" /\ touched) => surface' = surface]_vars

\* C16 (as claimed): once handleUndo/handleRedo have set the letter content
\* to the content of the snapshot undo()/redo() returned, and no user event
\* or generation result came since, the surface shows that content whenever
\* the mode is "idle" and no deferred write is pending.
C16_UndoRedoReachSurface ==
    (fedBack /\ syncStateRef = "idle" /\ ~updateTimeoutRef.pending)
        => surface = content

\* C17 (as claimed): a snapshot is pushed when a user edit settles: once the
\* last settle timer of an input has fired with the edited text still the
\* content prop, the current history entry holds that text.
C17_SettledEditIsPushed ==
    (/\ syncOp = "settle"
     /\ lastEdit = "input"
     /\ settleTimers = {}
     /\ content = surface
     /\ content = lastSyncedContentRef)
        => /\ historyIndex >= 0
           /\ ContentOf(At(history, historyIndex)) = content

\* C17 (amended): a snapshot is pushed only when a generation completes:
\* user input, paste and the settle timers leave the history and its cursor
\* unchanged, the history changes only by a completed generation or a reset,
\* and the cursor only by those and by undo/redo.
C17_OnlyGenerationsPush ==
    [][/\ syncOp' \in {"input", "paste", "keydown", "settle"}
            => (history' = history /\ historyIndex' = historyIndex)
       /\ history' # history => histOp' \in {"addState", "reset"}
       /\ historyIndex' # historyIndex
            => histOp' \in {"addState", "reset", "undo", "redo"}]_vars

\* A user edit has settled and the history, not empty, does not hold it.
C17_Witness ==
    /\ syncOp = "settle"
    /\ lastEdit = "input"
    /\ settleTimers = {}
    /\ content = surface
    /\ historyIndex >= 0
    /\ \A k \in 1..Len(history) : ContentOf(history[k]) # content

\* C18 (as claimed): every handlePaste call, with or without a selection
\* range, inserts the clipboard text in the surface (at the caret when there
\* is one), sets the mode to "editing" and calls the change callback exactly
\* once with the surface's full text; and the mode stays "editing" until the
\* settle window of the last paste has passed.
C18_PasteCommits ==
    [][/\ syncOp' = "paste" =>
            /\ syncStateRef' = "editing"
            /\ \E text \in PasteTexts, pos \in 0..Len(surface) :
                   /\ caret >= 0 => pos = caret
                   /\ surface' = InsertAt(surface, pos, text)
            /\ Kinds(effects', "change") = <<ChangeCall(surface')>>
       /\ (lastEdit = "paste" /\ sinceInput < SettleWindow)
            => syncStateRef = "editing"]_vars

\* C19: the initialisation effect writes once: its first run sets the
\* surface and the last-committed text to the content prop with the mode
\* "idle"; every later run (the effect runs again at each change of the
\* content prop) leaves the surface, the last-committed text and the mode
\* as they are, and the surface stays initialised.
C19_InitializeOnce ==
    [][/\ syncOp' = "mount" =>
            /\ ~isInitializedRef
            /\ isInitializedRef'
            /\ surface' = content'
            /\ lastSyncedContentRef' = content'
            /\ syncStateRef' = "idle"
       /\ (isInitializedRef /\ syncOp' = "external") =>
            /\ surface' = surface
            /\ lastSyncedContentRef' = lastSyncedContentRef
            /\ syncStateRef' = syncStateRef
       /\ isInitializedRef => isInitializedRef']_vars

\* The content prop has just changed on an initialised surface, which still
\* shows and remembers the earlier text.
C19_Witness ==
    /\ syncOp = "external"
    /\ isInitializedRef
    /\ surface # content
    /\ lastSyncedContentRef = surface
    /\ surface # <<>>

\* C20 (as claimed): when the caret measurement or the caret restoration of
\* the deferred callback throws, the text update still takes effect and the
\* caret ends at the end of the new text.
C20_FailureFallsBackToEnd ==
    [][(syncOp' = "tick"
          /\ (Kinds(effects', "measure") # <<>> \/ Kinds(effects', "restore") # <<>>))
          => /\ surface' = updateTimeoutRef.content
             /\ lastSyncedContentRef' = updateTimeoutRef.content
             /\ caret' = Len(surface')]_vars

\* C21: at every moment at most one promise of a key is in flight, and the
\* map holds an entry for the key exactly while one is (the entry is gone
\* once a promise has settled, resolved or rejected); a caller that called
\* while a promise of its key was in flight received that promise and its
\* requestFn was not invoked; any other caller's requestFn was invoked.
C21_SingleFlight ==
    /\ \A key \in Keys :
           /\ Cardinality(InFlight(key)) <= 1
           /\ pendingRequests[key] # NoEntry <=> InFlight(key) # {}
           /\ pendingRequests[key] # NoEntry => pendingRequests[key] \in InFlight(key)
    /\ \A i \in 1..Len(callers) :
           IF callers[i].inFlight # {}
           THEN callers[i].promise \in callers[i].inFlight /\ ~callers[i].invoked
           ELSE callers[i].invoked

\* A caller joined a promise that later rejected, and after its entry was
\* removed another caller of the same key started a fresh request.
C21_Witness ==
    \E i, j \in 1..Len(callers) :
        /\ i < j
        /\ callers[i].key = callers[j].key
        /\ callers[i].inFlight # {}
        /\ promises[callers[i].promise].state = "rejected"
        /\ promises[callers[i].promise].finalised
        /\ callers[j].invoked
        /\ callers[j].promise # NoEntry
        /\ callers[j].promise # callers[i].promise

\* C22: the only timer that can be live is the one set by the last
\* handleSendMessage call, due 500 ms after that call; so every generation
\* request made carries the last call's message and file ids and is made
\* 500 ms after that call, and each call leads to at most one request.
C22_Debounce ==
    [][/\ \A t \in sendTimers :
              /\ t.call = sendCount
              /\ t.remaining = DebounceDelay - sinceSend
       /\ sendOp' = "fire" =>
              /\ requestLog'[Len(requestLog')].call = sendCount
              /\ requestLog'[Len(requestLog')].after = DebounceDelay
       /\ \A i, j \in 1..Len(requestLog) :
              i < j => requestLog[i].call < requestLog[j].call]_vars

\* Three calls were made less than 500 ms apart and one request was made,
\* for the third.
C22_Witness ==
    /\ sendOp = "fire"
    /\ sendCount >= 3
    /\ Len(requestLog) = 1
    /\ requestLog[1].call = sendCount

\* C30: a request that has its response has no open browser, and one in
\* which a step of the try block threw has the 500 JSON response; the
\* handler rejects without a response only when the body could not be read,
\* before any browser was launched.
C30_BrowserClosed ==
    \A r \in PdfIds :
        /\ pdfRequests[r].response # "none" => pdfRequests[r].browser # "open"
        /\ (pdfRequests[r].pc = "done" /\ pdfRequests[r].failed
                /\ pdfRequests[r].response # "unhandled")
               => pdfRequests[r].response = "json500"
        /\ pdfRequests[r].response = "unhandled" => pdfRequests[r].browser = "none"
        /\ (pdfRequests[r].pc = "done" /\ ~pdfRequests[r].failed)
               => (pdfRequests[r].response = "pdf" /\ pdfRequests[r].browser = "closed")

\* A request whose browser had been launched failed at a later step and was
\* answered with the 500 response, its browser closed.
C30_Witness ==
    \E r \in PdfIds :
        /\ pdfRequests[r].response = "json500"
        /\ pdfRequests[r].browser = "closed"
        /\ pdfRequests[r].failed

\* C23: when a generation completes after undo() or redo() moved the cursor
\* during its flight, the push truncates at the cursor of that moment: the
\* history becomes the snapshots up to the current cursor followed by the
\* new snapshot, with the cursor on it.
C23_PushTruncatesAtCursor ==
    [][\A k \in 1..Len(flights) :
          (/\ histOp' = "addState"
           /\ flights' = OtherPushed(DropAt(flights, k))
           /\ flights[k].cursorMoved)
          => /\ history' = addState(history, historyIndex, histArg').history
             /\ historyIndex' = Len(history') - 1]_vars

\* C24: when a generation completes after the push of an overlapping one,
\* with no undo, redo or reset during its flight, the history ends with the
\* earlier snapshot followed by the new one, the cursor on the new one.
C24_NoPushLost ==
    [][\A k \in 1..Len(flights) :
          (/\ histOp' = "addState"
           /\ flights' = OtherPushed(DropAt(flights, k))
           /\ flights[k].otherPushed
           /\ ~flights[k].cursorMoved)
          => /\ Len(history') >= 2
             /\ history'[Len(history') - 1] = At(history, historyIndex)
             /\ history'[Len(history')] = histArg'
             /\ historyIndex' = Len(history') - 1]_vars

\* C25: the snapshot a completion pushes has the content and the closing
\* that the same completion writes into the letter state.
C25_SnapshotIsDisplayedLetter ==
    [][(histOp' = "addState" /\ Len(flights') < Len(flights))
          => /\ ContentOf(histArg') = content'
             /\ ClosingOf(histArg') = letterClosing']_vars

\* C26: of two executions of the upstream call for one key, the earlier one
\* failed or the later one started after the earlier one's cached result had
\* expired; a request that did not execute was answered from the promise in
\* flight or from the cache; an entry returned by the cache had not expired.
C26_UpstreamOncePerTtl ==
    /\ \A i, j \in 1..Len(served) :
           (i < j /\ served[i].key = served[j].key
                  /\ served[i].how = "executed" /\ served[j].how = "executed")
           => \/ promises[served[i].promise].state = "rejected"
              \/ /\ promises[served[i].promise].state = "resolved"
                 /\ served[j].at > settledAt[served[i].promise] + TtlTicks
    /\ \A j \in 1..Len(served) :
           /\ served[j].how = "hit" =>
                  /\ served[j].expiresAt >= served[j].at
                  /\ promises[served[j].promise].state = "resolved"
                  /\ promises[served[j].promise].key = served[j].key
           /\ served[j].how = "joined" =>
                  /\ served[j].promise \in 1..Len(promises)
                  /\ promises[served[j].promise].key = served[j].key

\* One key saw an execution that succeeded, a request that joined it, a
\* request answered from the cache, and a new execution after the expiry.
C26_Witness ==
    \E i, j, k, l \in 1..Len(served) :
        /\ i < j /\ j < k /\ k < l
        /\ served[i].key = served[j].key
        /\ served[j].key = served[k].key
        /\ served[k].key = served[l].key
        /\ served[i].how = "executed"
        /\ promises[served[i].promise].state = "resolved"
        /\ served[j].how = "joined"
        /\ served[k].how = "hit"
        /\ served[l].how = "executed"

C28_WindowReopens ==
    [][rateOp' = "check" =>
          LET c == lastCheck'.clientId
              w == fixedWindow[c]
              plain == checkRateLimit(rateLimitStore, c, rateNow, FALSE)
          IN  /\ (w.resetTime # -1 /\ rateNow > w.resetTime) =>
                     /\ lastCheck'.returned = "result"
                     /\ lastCheck'.result = [allowed |-> TRUE,
                                             remaining |-> MaxRequests - 1,
                                             resetTime |-> rateNow + WindowTicks]
                     /\ {e \in rateLimitStore' : e.clientId = c}
                            = {[clientId |-> c, count |-> 1,
                                resetTime |-> rateNow + WindowTicks]}
              /\ lastCheck'.returned = plain.returned
              /\ lastCheck'.result = plain.result
              /\ {e \in rateLimitStore' : e.clientId = c}
                     = {e \in plain.store : e.clientId = c}
              /\ \A d \in ClientIds :
                     checkRateLimit(rateLimitStore', d, rateNow, FALSE).result
                         = checkRateLimit(plain.store, d, rateNow, FALSE).result]_vars

\* A client that had been denied called after its window's resetTime, in a
\* call whose clean-up ran, and was allowed.
C28_Witness ==
    /\ rateOp = "check"
    /\ lastCheck.unblocked
    /\ lastCheck.cleanup
    /\ lastCheck.returned = "result"

\* C29: the attached-file list never holds more than MAX_FILES files, and
\* the sum of their sizes never exceeds MAX_TOTAL_SIZE.
C29_AttachmentLimits ==
    /\ Len(uploadedFiles) <= MAX_FILES
    /\ TotalSize(uploadedFiles) <= MAX_TOTAL_SIZE

====
